---- MODULE Spec2Model ----
(***************************************************************************)
(* Model of the zenoh person-following example (task_definitions/ros2):    *)
(*   zenoh_person_follow.py   parse_ros2_image, detect_human_with_qwen,    *)
(*                            create_twist_message, on_image_received      *)
(*   monitor_twist_commands.py parse_twist_message                         *)
(*                                                                         *)
(* Bytes are integers 0..255.  A command buffer is a sequence of bytes.    *)
(* A double is modelled by its IEEE-754 bit pattern, written as 8 bytes    *)
(* most significant byte first; struct's '<d' writes them in the opposite  *)
(* order.  A camera buffer is a record [head, fill]: the bytes of head     *)
(* followed by fill bytes of value 0 (the pixel payload is a run of up to  *)
(* several million bytes whose values the decoder never inspects).         *)
(***************************************************************************)
EXTENDS Integers, Sequences, FiniteSets, TLC

VARIABLES cmdArg, cmdOut, monArg, monOut, imgArg, imgOut, nframes, prev, last, published

vars == <<cmdArg, cmdOut, monArg, monOut, imgArg, imgOut, nframes, prev, last, published>>

\* ---------------------------------------------------------------- bounds
\* Depth at which the interpreter refuses a further nested call.
RecursionLimit == 3
\* Largest number of consecutive encoding faults the environment injects.
MaxFaults == RecursionLimit + 1
\* Number of camera frames delivered to the callback in one run.
MaxFrames == 2

\* ---------------------------------------------------------------- bytes
Min(a, b) == IF a < b THEN a ELSE b
Abs(a) == IF a < 0 THEN 0 - a ELSE a
Rev(s) == [i \in 1..Len(s) |-> s[Len(s) + 1 - i]]
Zeros(n) == [i \in 1..n |-> 0]
Fill(n, v) == [i \in 1..n |-> v]

\* Python s[a:b] on a sequence, for 0 <= a.
PySlice(s, a, b) == SubSeq(s, a + 1, Min(b, Len(s)))

\* ---------------------------------------------------------------- doubles
D_zero == <<0, 0, 0, 0, 0, 0, 0, 0>>
D_negzero == <<128, 0, 0, 0, 0, 0, 0, 0>>
D_forward == <<63, 211, 51, 51, 51, 51, 51, 51>>
D_one == <<63, 240, 0, 0, 0, 0, 0, 0>>
D_neghalf == <<191, 224, 0, 0, 0, 0, 0, 0>>
D_max == <<127, 239, 255, 255, 255, 255, 255, 255>>
D_denorm == <<0, 0, 0, 0, 0, 0, 0, 1>>
D_inf == <<127, 240, 0, 0, 0, 0, 0, 0>>
D_nan == <<127, 248, 0, 0, 0, 0, 0, 0>>

FiniteDoubles == {D_zero, D_negzero, D_forward, D_one, D_neghalf, D_max, D_denorm}

Exponent(d) == (d[1] % 128) * 16 + (d[2] \div 16)
MantissaIsZero(d) == d[2] % 16 = 0 /\ \A i \in 3..8 : d[i] = 0
IsNaN(d) == Exponent(d) = 2047 /\ ~MantissaIsZero(d)
IsFinite(d) == Exponent(d) # 2047
IsZero(d) == Exponent(d) = 0 /\ MantissaIsZero(d)
\* IEEE-754 comparisons d > 0.0 and a == b
GtZero(d) == ~IsNaN(d) /\ ~IsZero(d) /\ d[1] < 128
FEq(a, b) == ~IsNaN(a) /\ ~IsNaN(b) /\ ((IsZero(a) /\ IsZero(b)) \/ a = b)

\* struct.pack('<d', v), struct.unpack('<d', b)
pack_d(v) == Rev(v)
unpack_d(b) == Rev(b)

\* struct.pack_into('<ddd', buffer, offset, a, b, c)
pack_into_ddd(buffer, offset, a, b, c) ==
  LET bytes == pack_d(a) \o pack_d(b) \o pack_d(c)
  IN [i \in 1..Len(buffer) |->
        IF i > offset /\ i <= offset + 24 THEN bytes[i - offset] ELSE buffer[i]]

\* struct.unpack('<ddd', b): struct.error unless b has exactly 24 bytes
unpack_ddd(b) ==
  IF Len(b) # 24 THEN [ok |-> FALSE, v |-> <<D_zero, D_zero, D_zero>>]
  ELSE [ok |-> TRUE,
        v |-> <<unpack_d(SubSeq(b, 1, 8)), unpack_d(SubSeq(b, 9, 16)), unpack_d(SubSeq(b, 17, 24))>>]

\* ---------------------------------------------------------------- create_twist_message
\* A plausible slip: angular_z written into the angular.x slot.
twist_buffer_slot(linear_x, angular_z) ==
  pack_into_ddd(pack_into_ddd(Zeros(48), 0, linear_x, D_zero, D_zero), 24, angular_z, D_zero, D_zero)

\* The try body of create_twist_message.
twist_buffer(linear_x, angular_z) ==
  LET buffer == Zeros(48)
      b1 == pack_into_ddd(buffer, 0, linear_x, D_zero, D_zero)
      b2 == pack_into_ddd(b1, 24, D_zero, D_zero, angular_z)
  IN b2

\* faults: how many of the next attempts raise inside the try body (an
\* allocation failure injected by the environment).  depth: nesting of the
\* current call.  A call nested RecursionLimit deep raises RecursionError, which
\* leaves every enclosing except clause, because each nested call is made from
\* an except clause and not from a try body.
RECURSIVE create_twist_message(_, _, _, _)
create_twist_message(linear_x, angular_z, faults, depth) ==
  IF depth >= RecursionLimit
  THEN [status |-> "RecursionError", data |-> <<>>, attempts |-> depth]
  ELSE IF faults > 0
       THEN create_twist_message(D_zero, D_zero, faults - 1, depth + 1)
       ELSE [status |-> "ok", data |-> twist_buffer(linear_x, angular_z), attempts |-> depth + 1]

\* ---------------------------------------------------------------- parse_twist_message
NoTwist == [linear |-> [x |-> D_zero, y |-> D_zero, z |-> D_zero],
            angular |-> [x |-> D_zero, y |-> D_zero, z |-> D_zero]]

\* A plausible slip: only too-short buffers are rejected.
parse_twist_message_short(data) ==
  LET lin == unpack_ddd(PySlice(data, 0, 24))
      ang == unpack_ddd(PySlice(data, 24, 48))
  IN IF Len(data) < 48
     THEN [ok |-> FALSE, error |-> "MalformedLength", reads |-> 0, twist |-> NoTwist]
     ELSE [ok |-> TRUE, error |-> "none", reads |-> 6,
           twist |-> [linear |-> [x |-> lin.v[1], y |-> lin.v[2], z |-> lin.v[3]],
                      angular |-> [x |-> ang.v[1], y |-> ang.v[2], z |-> ang.v[3]]]]

\* The result is None on both failure paths; error names the path taken:
\* "MalformedLength" is the size test, "Exception" the except clause.  reads
\* counts the fields unpacked before the function returned.
parse_twist_message(data) ==
  IF Len(data) # 48
  THEN [ok |-> FALSE, error |-> "MalformedLength", reads |-> 0, twist |-> NoTwist]
  ELSE LET lin == unpack_ddd(PySlice(data, 0, 24))
           ang == unpack_ddd(PySlice(data, 24, 48))
       IN IF ~lin.ok
          THEN [ok |-> FALSE, error |-> "Exception", reads |-> 0, twist |-> NoTwist]
          ELSE IF ~ang.ok
          THEN [ok |-> FALSE, error |-> "Exception", reads |-> 3, twist |-> NoTwist]
          ELSE [ok |-> TRUE, error |-> "none", reads |-> 6,
                twist |-> [linear |-> [x |-> lin.v[1], y |-> lin.v[2], z |-> lin.v[3]],
                           angular |-> [x |-> ang.v[1], y |-> ang.v[2], z |-> ang.v[3]]]]

\* ---------------------------------------------------------------- camera buffers
CAMERA == <<99, 97, 109, 101, 114, 97>>
RGB8 == <<114, 103, 98, 56>>
BGR8 == <<98, 103, 114, 56>>

EmptyBuf == [head |-> <<>>, fill |-> 0]

\* len(payload_bytes)
BLen(b) == Len(b.head) + b.fill

\* payload_bytes[a:e] for 0 <= a
BSlice(b, a, e) ==
  LET e2 == Min(e, BLen(b))
      hl == Len(b.head)
  IN IF a >= e2 THEN EmptyBuf
     ELSE [head |-> SubSeq(b.head, a + 1, Min(e2, hl)),
           fill |-> IF e2 > hl THEN e2 - (IF a > hl THEN a ELSE hl) ELSE 0]

\* payload_bytes[a:]
BFrom(b, a) == BSlice(b, a, BLen(b))

\* the bytes of a short buffer, written out
BBytes(b) == b.head \o Zeros(b.fill)

\* payload_bytes.find(pat): lowest index of pat, -1 when absent.  Every
\* pattern searched for is free of zero bytes, so a match lies within head.
find(b, pat) ==
  LET hits == {i \in 0..(Len(b.head) - Len(pat)) : SubSeq(b.head, i + 1, i + Len(pat)) = pat}
  IN IF hits = {} THEN -1 ELSE CHOOSE i \in hits : \A j \in hits : i <= j

\* An unsigned 32-bit value is kept as v = hi * 2^24 + lo.
NoU32 == [hi |-> 0, lo |-> 0]
U32Int(u) == u.hi * 16777216 + u.lo

\* struct.unpack('<I', s)[0]: struct.error unless s has exactly 4 bytes
unpack_I(s) ==
  IF BLen(s) # 4 THEN [ok |-> FALSE, v |-> NoU32]
  ELSE LET by == BBytes(s)
       IN [ok |-> TRUE, v |-> [hi |-> by[4], lo |-> by[1] + 256 * by[2] + 65536 * by[3]]]

\* struct.pack('<I', n) for n < 2^24
PackU32(n) == <<n % 256, (n \div 256) % 256, (n \div 65536) % 256, 0>>

\* cv2.cvtColor(image_array, cv2.COLOR_RGB2BGR): the first and third byte of
\* every pixel change places
RGB2BGR(b) ==
  LET k == Len(b.head)
      pad == (3 - (k % 3)) % 3
      ext == b.head \o Zeros(pad)
  IN [head |-> [i \in 1..Len(ext) |-> ext[i + 2 - 2 * ((i - 1) % 3)]], fill |-> b.fill - pad]

\* ---------------------------------------------------------------- parse_ros2_image
common_resolutions ==
  <<<<640, 480>>, <<800, 600>>, <<1024, 768>>, <<1280, 720>>, <<1280, 960>>,
    <<1920, 1080>>, <<1280, 1024>>, <<1600, 1200>>>>

\* int(pixels ** 0.5) for 0 <= pixels < 2^22, found by bisection
RECURSIVE ISqrtIn(_, _, _)
ISqrtIn(p, lo, hi) ==
  IF lo >= hi THEN lo
  ELSE LET mid == (lo + hi + 1) \div 2
       IN IF mid * mid <= p THEN ISqrtIn(p, mid, hi) ELSE ISqrtIn(p, lo, mid - 1)

ISqrt(p) == ISqrtIn(p, 0, 2048)

\* A plausible slip: the tolerance test without abs().
matched_resolution_noabs(image_data_size) ==
  LET hits == {i \in 1..Len(common_resolutions) :
                 common_resolutions[i][1] * common_resolutions[i][2] * 3 - image_data_size < 100}
  IN IF hits = {} THEN 0 ELSE CHOOSE i \in hits : \A j \in hits : i <= j

\* The for loop over common_resolutions: index of the first entry within the
\* tolerance, 0 when the loop ends without break.
matched_resolution(image_data_size) ==
  LET hits == {i \in 1..Len(common_resolutions) :
                 Abs(common_resolutions[i][1] * common_resolutions[i][2] * 3 - image_data_size) < 100}
  IN IF hits = {} THEN 0 ELSE CHOOSE i \in hits : \A j \in hits : i <= j

\* A plausible slip: the width rounded up.
fallback_resolution_ceil(image_data_size) ==
  LET pixels == image_data_size \div 3
  IN IF pixels < 0 THEN [error |-> "Exception:TypeError", width |-> 0, height |-> 0]
     ELSE LET r == ISqrt(pixels)
              width == IF r * r = pixels THEN r ELSE r + 1
          IN IF width = 0 THEN [error |-> "Exception:ZeroDivisionError", width |-> 0, height |-> 0]
             ELSE [error |-> "none", width |-> width, height |-> pixels \div width]

\* The else clause of the for loop.  A negative pixels makes pixels ** 0.5 a
\* complex number, which int() rejects with TypeError.
fallback_resolution(image_data_size) ==
  LET pixels == image_data_size \div 3
  IN IF pixels < 0 THEN [error |-> "Exception:TypeError", width |-> 0, height |-> 0]
     ELSE LET width == ISqrt(pixels)
          IN IF width = 0 THEN [error |-> "Exception:ZeroDivisionError", width |-> 0, height |-> 0]
             ELSE [error |-> "none", width |-> width, height |-> pixels \div width]

\* A plausible slip: the encoding tag counted without its terminating NUL.
header_offset_tag4(rgb8_pos) == rgb8_pos + 4 + 1 + 4

\* rgb8_pos + 5 + 1 + 4  (encoding + is_bigendian + step)
header_offset(rgb8_pos) == rgb8_pos + 5 + 1 + 4

\* A plausible slip: the payload is cut to size but its length is never checked
\* against the shape.
shaped_pixels_unchecked(image_data, height, width) ==
  LET expected_pixels == height * width * 3
  IN [error |-> "none", array |-> BSlice(image_data, 0, expected_pixels)]

\* Truncation to expected_pixels and reshape((height, width, 3)), which raises
\* ValueError unless the array holds exactly height * width * 3 elements.
shaped_pixels(image_data, height, width) ==
  LET expected_pixels == height * width * 3
      image_array == IF BLen(image_data) > expected_pixels
                     THEN BSlice(image_data, 0, expected_pixels)
                     ELSE image_data
  IN IF BLen(image_array) # expected_pixels
     THEN [error |-> "Exception:ValueError", array |-> EmptyBuf]
     ELSE [error |-> "none", array |-> image_array]

NoImage ==
  [ok |-> FALSE, error |-> "none", steps |-> <<>>, camera_pos |-> -1, frame_id_len |-> NoU32,
   parsed_height |-> NoU32, parsed_width |-> NoU32, rgb8_pos |-> -1, header_size |-> 0,
   image_data_size |-> 0, matched |-> 0, width |-> 0, height |-> 0, offset |-> 0,
   image_array |-> EmptyBuf, image_bgr |-> EmptyBuf]

\* parse_ros2_image from the frame_id length prefix on, camera_pos being the
\* position of the frame_id marker.  steps lists the steps reached, in order.
parse_located(payload_bytes, camera_pos, steps0) ==
  LET s1 == [NoImage EXCEPT !.steps = steps0, !.camera_pos = camera_pos]
      frame_id_len_pos == camera_pos - 4
  IN IF frame_id_len_pos < 0 THEN [s1 EXCEPT !.error = "InvalidOffset"]
     ELSE
  LET lenr == unpack_I(BSlice(payload_bytes, frame_id_len_pos, frame_id_len_pos + 4))
      s2 == [s1 EXCEPT !.steps = Append(@, "read_frame_id_len"), !.frame_id_len = lenr.v]
  IN IF ~lenr.ok THEN [s2 EXCEPT !.error = "Exception:struct.error"]
     ELSE
  LET frame_id_end == camera_pos + U32Int(lenr.v)
      hr == unpack_I(BSlice(payload_bytes, frame_id_end, frame_id_end + 4))
      wr == unpack_I(BSlice(payload_bytes, frame_id_end + 4, frame_id_end + 8))
      s3 == [s2 EXCEPT !.steps = Append(@, "read_dimensions"),
                       !.parsed_height = hr.v, !.parsed_width = wr.v]
  IN IF ~hr.ok \/ ~wr.ok THEN [s3 EXCEPT !.error = "Exception:struct.error"]
     ELSE
  LET rgb8_pos == find(payload_bytes, RGB8)
      s4 == [s3 EXCEPT !.steps = Append(@, "find_encoding"), !.rgb8_pos = rgb8_pos]
  IN IF rgb8_pos = -1 THEN [s4 EXCEPT !.error = "MarkerNotFound:encoding"]
     ELSE
  LET total_payload == BLen(payload_bytes)
      header_size == header_offset(rgb8_pos)
      image_data_size == total_payload - header_size
      m == matched_resolution(image_data_size)
      fb == fallback_resolution(image_data_size)
      s5 == [s4 EXCEPT !.steps = Append(@, "reconcile"), !.header_size = header_size,
                       !.image_data_size = image_data_size, !.matched = m]
  IN IF m = 0 /\ fb.error # "none" THEN [s5 EXCEPT !.error = fb.error]
     ELSE
  LET width == IF m # 0 THEN common_resolutions[m][1] ELSE fb.width
      height == IF m # 0 THEN common_resolutions[m][2] ELSE fb.height
      offset == header_offset(rgb8_pos)
      image_data == BFrom(payload_bytes, offset)
      sh == shaped_pixels(image_data, height, width)
      s6 == [s5 EXCEPT !.steps = Append(@, "slice"), !.width = width, !.height = height,
                       !.offset = offset]
  IN IF sh.error # "none" THEN [s6 EXCEPT !.error = sh.error]
     ELSE [s6 EXCEPT !.ok = TRUE, !.steps = Append(@, "cvtColor"),
                     !.image_array = sh.array, !.image_bgr = RGB2BGR(sh.array)]

\* A plausible slip: the encoding marker is looked for before the frame_id
\* marker.
parse_ros2_image_encoding_first(payload_bytes) ==
  LET rgb8_pos == find(payload_bytes, RGB8)
      camera_pos == find(payload_bytes, CAMERA)
  IN IF rgb8_pos = -1
     THEN [NoImage EXCEPT !.error = "MarkerNotFound:encoding", !.steps = <<"find_encoding">>]
     ELSE IF camera_pos = -1
     THEN [NoImage EXCEPT !.error = "MarkerNotFound:frame_id",
                          !.steps = <<"find_encoding", "find_frame_id">>]
     ELSE parse_located(payload_bytes, camera_pos, <<"find_frame_id">>)

\* The result is None on every failure path; error names the path taken (the
\* three logged returns, or the exception the except clause caught).
parse_ros2_image(payload_bytes) ==
  LET camera_pos == find(payload_bytes, CAMERA)
  IN IF camera_pos = -1
     THEN [NoImage EXCEPT !.error = "MarkerNotFound:frame_id", !.steps = <<"find_frame_id">>]
     ELSE parse_located(payload_bytes, camera_pos, <<"find_frame_id">>)

\* ---------------------------------------------------------------- detect_human_with_qwen
\* Text is a sequence of one-character strings.
UpperCase == <<"A", "B", "C", "D", "E", "F", "G", "H", "I", "J", "K", "L", "M",
               "N", "O", "P", "Q", "R", "S", "T", "U", "V", "W", "X", "Y", "Z">>
LowerCase == <<"a", "b", "c", "d", "e", "f", "g", "h", "i", "j", "k", "l", "m",
               "n", "o", "p", "q", "r", "s", "t", "u", "v", "w", "x", "y", "z">>
Whitespace == {" ", "\n", "\t"}

\* str.lower()
lower(t) ==
  [i \in 1..Len(t) |->
     IF \E j \in 1..26 : UpperCase[j] = t[i]
     THEN LowerCase[CHOOSE j \in 1..26 : UpperCase[j] = t[i]]
     ELSE t[i]]

\* str.strip()
strip(t) ==
  LET keep == {i \in 1..Len(t) : t[i] \notin Whitespace}
  IN IF keep = {} THEN <<>>
     ELSE SubSeq(t, CHOOSE i \in keep : \A j \in keep : i <= j,
                    CHOOSE i \in keep : \A j \in keep : i >= j)

\* pat in t
contains(t, pat) == \E i \in 0..(Len(t) - Len(pat)) : SubSeq(t, i + 1, i + Len(pat)) = pat

T_yes == <<"y", "e", "s">>
T_no == <<"n", "o">>
T_person == <<"p", "e", "r", "s", "o", "n">>
T_Yes_dot == <<" ", "Y", "e", "s", ".", "\n">>
T_No_person == <<"N", "o", " ", "p", "e", "r", "s", "o", "n">>
T_API_error == <<"A", "P", "I", " ", "e", "r", "r", "o", "r">>
T_exception == <<"t", "i", "m", "e", "o", "u", "t">>

\* A plausible slip: the error branches report a detection.
detect_human_with_qwen_unsafe(image, http) ==
  IF http.kind = "200"
  THEN LET answer == lower(strip(IF http.has_response THEN http.response ELSE T_no))
       IN [human_detected |-> contains(answer, T_yes) \/ contains(answer, T_person),
           answer |-> answer, completed |-> TRUE]
  ELSE [human_detected |-> TRUE, answer |-> T_API_error, completed |-> FALSE]

\* http is what requests.post does: kind "200" (status 200, whose JSON may or
\* may not hold 'response'), "non200" (any other status), "exception" (timeout,
\* refused connection, undecodable body).  completed tells whether the verdict
\* comes from the service's answer.
detect_human_with_qwen(image, http) ==
  IF http.kind = "exception"
  THEN [human_detected |-> FALSE, answer |-> T_exception, completed |-> FALSE]
  ELSE IF http.kind = "200"
  THEN LET answer == lower(strip(IF http.has_response THEN http.response ELSE T_no))
       IN [human_detected |-> contains(answer, T_yes) \/ contains(answer, T_person),
           answer |-> answer, completed |-> TRUE]
  ELSE [human_detected |-> FALSE, answer |-> T_API_error, completed |-> FALSE]

\* ---------------------------------------------------------------- on_image_received
NoCallback ==
  [decoded |-> FALSE, classifier_calls |-> 0, completed |-> FALSE, human_detected |-> FALSE,
   described |-> FALSE, linear_x |-> D_zero, angular_z |-> D_zero, puts |-> <<>>,
   caught |-> "none", raised |-> FALSE]

\* A plausible slip: a frame that fails to decode is answered with a stop
\* command.
on_image_received_stop_on_failure(payload, env) ==
  LET image == parse_ros2_image(payload)
      det == detect_human_with_qwen(image, env.http)
      linear_x == IF image.ok /\ det.human_detected THEN D_forward ELSE D_zero
      tw == create_twist_message(linear_x, D_zero, env.faults, 0)
  IN [NoCallback EXCEPT !.decoded = image.ok,
                        !.classifier_calls = IF image.ok THEN 1 ELSE 0,
                        !.completed = image.ok /\ det.completed,
                        !.human_detected = image.ok /\ det.human_detected,
                        !.linear_x = linear_x,
                        !.puts = IF tw.status = "ok" THEN <<tw.data>> ELSE <<>>,
                        !.caught = IF tw.status = "ok" THEN "none" ELSE tw.status]

\* env is what the surroundings do during one callback: http the outcome of
\* the detection request, desc the outcome of the description request, faults
\* the encoding faults.  puts lists the buffers handed to publisher.put, caught
\* the exception the outer except clause caught, raised whether one left the
\* callback.
on_image_received(payload, env) ==
  LET image == parse_ros2_image(payload)
  IN IF ~image.ok THEN NoCallback
     ELSE
  LET det == detect_human_with_qwen(image, env.http)
      described == (env.desc = "200")
      linear_x == IF det.human_detected THEN D_forward ELSE D_zero
      angular_z == D_zero
      tw == create_twist_message(linear_x, angular_z, env.faults, 0)
      s1 == [NoCallback EXCEPT !.decoded = TRUE, !.classifier_calls = 1,
                               !.completed = det.completed,
                               !.human_detected = det.human_detected,
                               !.described = described,
                               !.linear_x = linear_x, !.angular_z = angular_z]
  IN IF tw.status # "ok" THEN [s1 EXCEPT !.caught = tw.status]
     ELSE [s1 EXCEPT !.puts = <<tw.data>>]

\* ---------------------------------------------------------------- inputs
\* Commands handed to the encoder.
CommandValues == FiniteDoubles

PackTwist(v) ==
  pack_d(v[1]) \o pack_d(v[2]) \o pack_d(v[3]) \o pack_d(v[4]) \o pack_d(v[5]) \o pack_d(v[6])

\* Buffers handed to the command decoder: the lengths around 48, and 48-byte
\* buffers with values on every axis, non-finite ones included.
TwistInputs ==
  {<<>>, <<1>>, Fill(24, 9), Fill(47, 7), Fill(49, 7), Fill(96, 3), Fill(1000, 1),
   Zeros(48), Fill(48, 255), [i \in 1..48 |-> i], [i \in 1..48 |-> 200 - i],
   PackTwist(<<D_one, D_neghalf, D_forward, D_max, D_inf, D_nan>>),
   PackTwist(<<D_nan, D_inf, D_denorm, D_negzero, D_one, D_forward>>)}

\* Camera buffers: lead, frame_id, height, width, length prefix of the
\* encoding, the encoding tag, k further header bytes, and zero bytes up to an
\* image_data_size of size (as the decoder counts it: from 10 bytes after the
\* start of the encoding tag).
PostBytes == <<0, 0, 0, 7, 0, 0, 11, 12, 13, 14, 15, 16>>
FID_camera == CAMERA \o <<0>>
FID_other == <<120, 97, 109, 101, 114, 97, 0>>

MkFrame(lead, fid, h, w, tag, k, size) ==
  [head |-> lead \o fid \o PackU32(h) \o PackU32(w) \o <<5, 0, 0, 0>> \o tag \o SubSeq(PostBytes, 1, k),
   fill |-> size + 6 - k]

Leads == {<<>>, <<0, 0>>, <<7, 0, 0, 0>>, <<0, 0, 0, 0, 0, 0, 0, 0, 7, 0, 0, 0>>,
          <<3, 0, 0, 0>>, <<0, 0, 1, 0>>, <<60, 0, 0, 0>>}
Fids == {FID_camera, FID_other}
Dims == {<<480, 640>>, <<1, 1>>}
Tags == {RGB8, BGR8}
PostLens == {0, 3, 6, 10, 12}
Sizes == {-6, -3, -1, 0, 1, 2, 3, 5, 12, 27, 300, 156219,
          921500, 921501, 921550, 921600, 921650, 921699, 921700,
          1440000, 2359296, 2764800, 3686400, 3686450, 6220800, 3932160, 5760000, 5759950}

\* What the callback is fed: a frame that decodes through the table, one
\* that decodes through the fallback, one without frame_id marker and one whose
\* payload is short.
FrameSamples ==
  {MkFrame(<<7, 0, 0, 0>>, FID_camera, 480, 640, RGB8, 10, 921600),
   MkFrame(<<7, 0, 0, 0>>, FID_camera, 1, 1, RGB8, 12, 27),
   MkFrame(<<7, 0, 0, 0>>, FID_other, 480, 640, RGB8, 10, 921600),
   MkFrame(<<7, 0, 0, 0>>, FID_camera, 480, 640, RGB8, 10, 921550)}

HTTP_yes == [kind |-> "200", has_response |-> TRUE, response |-> T_Yes_dot]
HTTP_no == [kind |-> "200", has_response |-> TRUE, response |-> T_no]
HTTP_no_person == [kind |-> "200", has_response |-> TRUE, response |-> T_No_person]
HTTP_empty == [kind |-> "200", has_response |-> FALSE, response |-> <<>>]
HTTP_500 == [kind |-> "non200", has_response |-> FALSE, response |-> <<>>]
HTTP_timeout == [kind |-> "exception", has_response |-> FALSE, response |-> <<>>]

\* What the two requests of one callback do: the detection request (http) and
\* the description request (desc).
Services ==
  {[http |-> HTTP_yes, desc |-> "200"], [http |-> HTTP_yes, desc |-> "exception"],
   [http |-> HTTP_no, desc |-> "200"], [http |-> HTTP_no_person, desc |-> "200"],
   [http |-> HTTP_empty, desc |-> "non200"], [http |-> HTTP_500, desc |-> "non200"],
   [http |-> HTTP_timeout, desc |-> "exception"]}

\* ---------------------------------------------------------------- state machine
NoCall == [called |-> FALSE, payload |-> EmptyBuf,
           env |-> [http |-> HTTP_timeout, desc |-> "exception", faults |-> 0],
           out |-> NoCallback]

NoCommand == [called |-> FALSE, x |-> D_zero, z |-> D_zero, faults |-> 0]
NoMonitor == [called |-> FALSE, delivered |-> FALSE, data |-> <<>>]
NoFrame == [called |-> FALSE, payload |-> EmptyBuf]

\* Nothing has run yet; the arguments of the calls to come are drawn here.
Idle ==
  /\ cmdOut = [status |-> "none", data |-> <<>>, attempts |-> 0]
  /\ monOut = [ok |-> FALSE, error |-> "none", reads |-> 0, twist |-> NoTwist]
  /\ imgOut = NoImage
  /\ nframes = 0
  /\ prev = NoCall
  /\ last = NoCall
  /\ published = <<>>

InitCommand ==
  /\ Idle
  /\ cmdArg \in {[called |-> FALSE, x |-> x, z |-> z, faults |-> f] :
                   x \in CommandValues, z \in CommandValues, f \in 0..MaxFaults}
  /\ monArg \in {[called |-> FALSE, delivered |-> FALSE, data |-> d] : d \in TwistInputs}
  /\ imgArg = NoFrame

InitFrame ==
  /\ Idle
  /\ cmdArg = NoCommand
  /\ monArg = NoMonitor
  /\ \E lead \in Leads, fid \in Fids, d \in Dims, tag \in Tags, k \in PostLens, size \in Sizes :
       /\ size + 6 - k >= 0
       /\ imgArg = [called |-> FALSE, payload |-> MkFrame(lead, fid, d[1], d[2], tag, k, size)]

Init ==
  /\ Idle
  /\ cmdArg = NoCommand
  /\ monArg = NoMonitor
  /\ imgArg = NoFrame

\* create_twist_message is called
Encode ==
  /\ ~cmdArg.called
  /\ cmdArg' = [cmdArg EXCEPT !.called = TRUE]
  /\ cmdOut' = create_twist_message(cmdArg.x, cmdArg.z, cmdArg.faults, 0)
  /\ UNCHANGED <<monArg, monOut, imgArg, imgOut, nframes, prev, last, published>>

\* the monitor receives the buffer the encoder returned
DeliverTwist ==
  /\ cmdOut.status = "ok"
  /\ ~monArg.called
  /\ monArg' = [called |-> TRUE, delivered |-> TRUE, data |-> cmdOut.data]
  /\ monOut' = parse_twist_message(cmdOut.data)
  /\ UNCHANGED <<cmdArg, cmdOut, imgArg, imgOut, nframes, prev, last, published>>

\* the monitor receives any other buffer
ReceiveTwist ==
  /\ ~monArg.called
  /\ monArg' = [monArg EXCEPT !.called = TRUE]
  /\ monOut' = parse_twist_message(monArg.data)
  /\ UNCHANGED <<cmdArg, cmdOut, imgArg, imgOut, nframes, prev, last, published>>

\* parse_ros2_image is called
DecodeFrame ==
  /\ ~imgArg.called
  /\ imgArg' = [imgArg EXCEPT !.called = TRUE]
  /\ imgOut' = parse_ros2_image(imgArg.payload)
  /\ UNCHANGED <<cmdArg, cmdOut, monArg, monOut, nframes, prev, last, published>>

\* the transport delivers a camera frame to the callback
OnImageReceived ==
  \E payload \in FrameSamples, sv \in Services, f \in {0, MaxFaults} :
    /\ nframes < MaxFrames
    /\ LET env == [http |-> sv.http, desc |-> sv.desc, faults |-> f]
           out == on_image_received(payload, env)
       IN /\ last' = [called |-> TRUE, payload |-> payload, env |-> env, out |-> out]
          /\ published' = published \o out.puts
    /\ prev' = last
    /\ nframes' = nframes + 1
    /\ UNCHANGED <<cmdArg, cmdOut, monArg, monOut, imgArg, imgOut>>

NextCommand == Encode \/ DeliverTwist \/ ReceiveTwist
NextFrame == DecodeFrame
Next == OnImageReceived

SpecCommand == InitCommand /\ [][NextCommand]_vars
SpecFrame == InitFrame /\ [][NextFrame]_vars
Spec == Init /\ [][Next]_vars

\* ---------------------------------------------------------------- properties
\* The double stored little-endian in the 8 bytes of data from offset off.
DoubleAt(data, off) == [i \in 1..8 |-> data[off + 9 - i]]

\* The byte at index i (from 0) of a camera buffer.
ByteAt(b, i) == IF i < Len(b.head) THEN b.head[i + 1] ELSE 0

\* Two camera buffers hold the same bytes.
BEq(a, b) ==
  /\ BLen(a) = BLen(b)
  /\ \A i \in 0..(Len(a.head) + Len(b.head)) : i < BLen(a) => ByteAt(a, i) = ByteAt(b, i)

NoCameraIn(b) == \A i \in 0..(Len(b.head) - 6) : SubSeq(b.head, i + 1, i + 6) # CAMERA
Rgb8In(b) == \E i \in 0..(Len(b.head) - 4) : SubSeq(b.head, i + 1, i + 4) = RGB8
Reached(step) == \E i \in 1..Len(imgOut.steps) : imgOut.steps[i] = step
Expected(i) == common_resolutions[i][1] * common_resolutions[i][2] * 3
StopCommand == Zeros(48)

\* C1: a command encoded without an encoding fault is a buffer of exactly 48
\* bytes; the command decoder accepts it and returns linear.x and angular.z
\* equal, bit for bit, to the values encoded, and 0.0 on the four other axes.
C1_RoundTrip ==
  (cmdArg.called /\ cmdArg.faults = 0) =>
     /\ cmdOut.status = "ok"
     /\ Len(cmdOut.data) = 48
     /\ monArg.delivered =>
          /\ monArg.data = cmdOut.data
          /\ monOut.ok
          /\ monOut.twist.linear.x = cmdArg.x
          /\ FEq(monOut.twist.linear.x, cmdArg.x)
          /\ monOut.twist.angular.z = cmdArg.z
          /\ FEq(monOut.twist.angular.z, cmdArg.z)
          /\ monOut.twist.linear.y = D_zero
          /\ monOut.twist.linear.z = D_zero
          /\ monOut.twist.angular.x = D_zero
          /\ monOut.twist.angular.y = D_zero

C1_Witness ==
  /\ cmdArg.called /\ cmdArg.faults = 0
  /\ cmdArg.x = D_forward /\ cmdArg.z = D_neghalf
  /\ monArg.delivered
  /\ monOut.ok
  /\ monOut.twist.linear.x = D_forward
  /\ monOut.twist.angular.z = D_neghalf

\* C2: when the decoder reaches the reconciliation and the payload size
\* (buffer length minus header_size) is less than 100 bytes away from w*h*3 of
\* a table entry, it selects the first such entry, whatever the embedded
\* height and width say, and every frame it returns has that width and height;
\* a payload of exactly 640*480*3 bytes is returned as a 640 x 480 frame.
C2_Reconcile ==
  (imgArg.called /\ Reached("reconcile")) =>
     /\ imgOut.image_data_size = BLen(imgArg.payload) - imgOut.header_size
     /\ \A i \in 1..Len(common_resolutions) :
          (/\ Abs(Expected(i) - imgOut.image_data_size) < 100
           /\ \A j \in 1..(i - 1) : Abs(Expected(j) - imgOut.image_data_size) >= 100) =>
             /\ imgOut.matched = i
             /\ Reached("slice")
             /\ imgOut.width = common_resolutions[i][1]
             /\ imgOut.height = common_resolutions[i][2]
     /\ imgOut.image_data_size = 640 * 480 * 3 =>
          imgOut.ok /\ imgOut.width = 640 /\ imgOut.height = 480

C2_Witness ==
  /\ imgArg.called
  /\ imgOut.ok
  /\ imgOut.image_data_size = 640 * 480 * 3
  /\ imgOut.parsed_width = [hi |-> 0, lo |-> 1]
  /\ imgOut.parsed_height = [hi |-> 0, lo |-> 1]
  /\ imgOut.width = 640 /\ imgOut.height = 480

\* C3 as stated: the pixel payload begins 4 + 1 + 4 bytes after the position
\* of the encoding marker.
C3_Original ==
  (imgArg.called /\ Reached("reconcile")) =>
     /\ imgOut.header_size = imgOut.rgb8_pos + 4 + 1 + 4
     /\ imgOut.image_data_size = BLen(imgArg.payload) - imgOut.header_size
     /\ imgOut.ok =>
          BEq(imgOut.image_array,
              BSlice(imgArg.payload, imgOut.rgb8_pos + 9,
                     imgOut.rgb8_pos + 9 + imgOut.width * imgOut.height * 3))

\* C3 amended: the pixel payload begins at header_size = position of the
\* encoding marker + 5 (the 4-byte tag and one byte more) + 1 + 4; the payload
\* size is the buffer length minus header_size, and the pixels are sliced from
\* the same offset.
C3_HeaderOffset ==
  (imgArg.called /\ Reached("reconcile")) =>
     /\ SubSeq(imgArg.payload.head, imgOut.rgb8_pos + 1, imgOut.rgb8_pos + 4) = RGB8
     /\ \A i \in 0..(imgOut.rgb8_pos - 1) : SubSeq(imgArg.payload.head, i + 1, i + 4) # RGB8
     /\ imgOut.header_size = imgOut.rgb8_pos + 10
     /\ imgOut.image_data_size = BLen(imgArg.payload) - imgOut.header_size
     /\ Reached("slice") => imgOut.offset = imgOut.header_size
     /\ imgOut.ok =>
          BEq(imgOut.image_array,
              BSlice(imgArg.payload, imgOut.rgb8_pos + 10,
                     imgOut.rgb8_pos + 10 + imgOut.width * imgOut.height * 3))

C3_Witness ==
  /\ imgArg.called
  /\ imgOut.ok
  /\ imgOut.header_size = imgOut.rgb8_pos + 10
  /\ Len(imgOut.image_array.head) > 0
  /\ imgOut.image_array.head[1] = 11

\* C4: a returned frame carries exactly width*height*3 bytes, the first ones
\* of the payload (with red and blue exchanged in the returned array); a longer
\* payload loses its tail, and a payload shorter than width*height*3 makes the
\* decode fail on the reshape instead of returning a partial frame.
C4_ExactPixels ==
  (imgArg.called /\ Reached("slice")) =>
     LET need == imgOut.width * imgOut.height * 3
         have == BLen(imgArg.payload) - imgOut.header_size
     IN /\ imgOut.ok =>
             /\ BLen(imgOut.image_array) = need
             /\ BLen(imgOut.image_bgr) = need
             /\ BEq(imgOut.image_array,
                    BSlice(imgArg.payload, imgOut.header_size, imgOut.header_size + need))
             /\ \A i \in 0..(Len(imgOut.image_bgr.head) - 1) :
                  ByteAt(imgOut.image_bgr, i) = ByteAt(imgOut.image_array, i + 2 - 2 * (i % 3))
        /\ have >= need => imgOut.ok
        /\ have < need =>
             /\ ~imgOut.ok
             /\ imgOut.error = "Exception:ValueError"
             /\ imgOut.image_array = EmptyBuf
             /\ imgOut.image_bgr = EmptyBuf

C4_Witness ==
  /\ imgArg.called
  /\ imgOut.ok
  /\ BLen(imgArg.payload) - imgOut.header_size = imgOut.width * imgOut.height * 3 + 50
  /\ BLen(imgOut.image_bgr) = imgOut.width * imgOut.height * 3

C4_WitnessShort ==
  /\ imgArg.called
  /\ Reached("slice")
  /\ BLen(imgArg.payload) - imgOut.header_size = imgOut.width * imgOut.height * 3 - 50
  /\ ~imgOut.ok

\* C5: when no table entry is within the tolerance, pixel_count is the
\* payload size divided by 3 rounded down, width the integer square root of
\* pixel_count and height pixel_count divided by width rounded down; with
\* pixel_count below 1 the decode fails.
C5_Fallback ==
  (imgArg.called /\ Reached("reconcile")
     /\ \A i \in 1..Len(common_resolutions) : Abs(Expected(i) - imgOut.image_data_size) >= 100) =>
     /\ imgOut.matched = 0
     /\ imgOut.image_data_size >= 3 =>
          \E pixel_count \in ((imgOut.image_data_size \div 3) - 1)..((imgOut.image_data_size \div 3) + 1) :
             /\ 3 * pixel_count <= imgOut.image_data_size
             /\ imgOut.image_data_size < 3 * pixel_count + 3
             /\ imgOut.ok
             /\ imgOut.width >= 1
             /\ imgOut.width * imgOut.width <= pixel_count
             /\ pixel_count < (imgOut.width + 1) * (imgOut.width + 1)
             /\ imgOut.height * imgOut.width <= pixel_count
             /\ pixel_count < (imgOut.height + 1) * imgOut.width
     /\ imgOut.image_data_size < 3 =>
          /\ ~imgOut.ok
          /\ imgOut.error \in {"Exception:ZeroDivisionError", "Exception:TypeError"}
          /\ imgOut.image_bgr = EmptyBuf
     /\ imgOut.image_data_size = 301 * 173 * 3 =>
          imgOut.ok /\ imgOut.width = 228 /\ imgOut.height = 228

C5_Witness ==
  /\ imgArg.called
  /\ imgOut.ok
  /\ imgOut.matched = 0
  /\ imgOut.image_data_size = 301 * 173 * 3
  /\ imgOut.width = 228

C5_WitnessSmall ==
  /\ imgArg.called
  /\ Reached("reconcile")
  /\ imgOut.image_data_size < 0
  /\ ~imgOut.ok

\* C6: the command decoder fails on the size test, and on nothing else and
\* before reading any field, when the buffer is not 48 bytes long; a buffer of
\* 48 bytes always decodes, to the doubles at offsets 0, 8, 16 (linear x, y,
\* z) and 24, 32, 40 (angular x, y, z).
C6_Length ==
  monArg.called =>
     /\ Len(monArg.data) # 48 =>
          /\ ~monOut.ok
          /\ monOut.error = "MalformedLength"
          /\ monOut.reads = 0
     /\ Len(monArg.data) = 48 =>
          /\ monOut.ok
          /\ monOut.error = "none"
          /\ monOut.twist.linear.x = DoubleAt(monArg.data, 0)
          /\ monOut.twist.linear.y = DoubleAt(monArg.data, 8)
          /\ monOut.twist.linear.z = DoubleAt(monArg.data, 16)
          /\ monOut.twist.angular.x = DoubleAt(monArg.data, 24)
          /\ monOut.twist.angular.y = DoubleAt(monArg.data, 32)
          /\ monOut.twist.angular.z = DoubleAt(monArg.data, 40)

C6_Witness ==
  /\ monArg.called
  /\ Len(monArg.data) = 49
  /\ ~monOut.ok
  /\ monOut.error = "MalformedLength"

C6_WitnessDecoded ==
  /\ monArg.called
  /\ Len(monArg.data) = 48
  /\ monOut.ok
  /\ IsNaN(monOut.twist.angular.z)

\* C7: a buffer without the frame_id marker fails on the frame_id search,
\* the only step that runs, whether or not it holds the encoding marker and
\* whatever its length; no frame is returned.
C7_MissingMarker ==
  (imgArg.called /\ NoCameraIn(imgArg.payload)) =>
     /\ ~imgOut.ok
     /\ imgOut.error = "MarkerNotFound:frame_id"
     /\ imgOut.steps = <<"find_frame_id">>
     /\ imgOut.image_bgr = EmptyBuf

C7_Witness ==
  /\ imgArg.called
  /\ NoCameraIn(imgArg.payload)
  /\ ~Rgb8In(imgArg.payload)
  /\ imgOut.error = "MarkerNotFound:frame_id"

\* C8: every call of the encoder returns a buffer of 48 bytes, the encoding
\* of the stop command when an encoding fault occurred, however often the
\* fault recurs.
C8_NeverFails ==
  cmdArg.called =>
     /\ cmdOut.status = "ok"
     /\ Len(cmdOut.data) = 48
     /\ cmdArg.faults > 0 => cmdOut.data = StopCommand

\* C9: a command with linear.x > 0 is published for a frame only if the
\* frame decoded and the detection request completed with a positive verdict;
\* when the detection request fails, the callback takes it as no detection and
\* what it publishes is the stop command (and it publishes one, unless the
\* encoder raised).
C9_SafeDefault ==
  last.called =>
     /\ \A i \in 1..Len(last.out.puts) :
          GtZero(parse_twist_message(last.out.puts[i]).twist.linear.x) =>
             /\ last.out.decoded
             /\ last.env.http.kind = "200"
             /\ last.out.completed
             /\ last.out.human_detected
     /\ (parse_ros2_image(last.payload).ok /\ last.env.http.kind # "200") =>
          /\ last.out.classifier_calls = 1
          /\ ~last.out.human_detected
          /\ \A i \in 1..Len(last.out.puts) :
               /\ last.out.puts[i] = StopCommand
               /\ parse_twist_message(last.out.puts[i]).twist.linear.x = D_zero
               /\ parse_twist_message(last.out.puts[i]).twist.angular.z = D_zero
          /\ last.out.caught = "none" => Len(last.out.puts) = 1
     /\ \A i \in 1..Len(published) : Len(published[i]) = 48

C9_Witness ==
  /\ last.called
  /\ last.out.decoded
  /\ last.env.http.kind = "non200"
  /\ last.out.puts = <<StopCommand>>
  /\ prev.called
  /\ prev.out.human_detected
  /\ Len(prev.out.puts) = 1
  /\ GtZero(parse_twist_message(prev.out.puts[1]).twist.linear.x)

\* C10: a callback publishes at most one command and never raises; for a
\* frame that fails to decode it publishes nothing and does not call the
\* classifier; what it does for a frame depends on that frame and its
\* surroundings only, so the frame after a failed one is processed as usual.
C10_SkipFrame ==
  last.called =>
     /\ Len(last.out.puts) <= 1
     /\ ~last.out.raised
     /\ Len(published) <= nframes
     /\ ~parse_ros2_image(last.payload).ok =>
          /\ ~last.out.decoded
          /\ last.out.puts = <<>>
          /\ last.out.classifier_calls = 0
          /\ last.out.caught = "none"
     /\ (prev.called /\ prev.payload = last.payload /\ prev.env = last.env) =>
          prev.out = last.out
     /\ (prev.called /\ ~prev.out.decoded /\ parse_ros2_image(last.payload).ok
           /\ last.env.faults = 0) =>
          /\ last.out.decoded
          /\ last.out.classifier_calls = 1
          /\ Len(last.out.puts) = 1

C10_Witness ==
  /\ prev.called
  /\ NoCameraIn(prev.payload)
  /\ prev.out.puts = <<>>
  /\ last.called
  /\ last.out.decoded
  /\ Len(last.out.puts) = 1
  /\ Len(published) = 1

====
